---- MODULE Spec2Model ----
(***************************************************************************)
(* State-machine model of streamlit_app.py: the cached asset loader, the   *)
(* prediction pipeline, the upload handler with its temporary files and    *)
(* the recorder handler, run by concurrent Streamlit sessions.             *)
(***************************************************************************)
EXTENDS Integers, Sequences, FiniteSets, TLC

VARIABLES artifacts, ffmpeg, cache, reads, fs, pc, runs, assets, req, pipe, out

vars == <<artifacts, ffmpeg, cache, reads, fs, pc, runs, assets, req, pipe, out>>

\* ---------------------------------------------------------------- bounds
\* Script runs (user interactions) each session performs.
MaxRuns == 2
\* Size of the pool of random names tempfile can draw.
NumNames == 2

TARGET_SR == 16000

Sessions == {1, 2}
Names == 1..NumNames
\* Two of the extensions st.file_uploader(type=['wav', 'mp3', 'aac']) lets through.
Exts == {"wav", "mp3"}

\* ---------------------------------------------------------------- values
NaN == "nan"
Inf == "inf"
NegInf == "-inf"
Fill == "fill"
None == "None"
NoPath == <<>>
\* The temporary directory with no file in it: path |-> session whose audio it holds.
NoFiles == [p \in {} |-> 0]

\* The four module globals before line 49 has assigned them.
Unset == [model |-> "unset", imputer |-> "unset", selected_features_names |-> <<>>, tsfel_cfg |-> "unset"]
\* return None, None, None, None
NoneAssets == [model |-> None, imputer |-> None, selected_features_names |-> <<>>, tsfel_cfg |-> None]
LoadedAssets(sel) == [model |-> "model", imputer |-> "imputer", selected_features_names |-> sel, tsfel_cfg |-> "cfg"]

\* Locals of one request and of one pipeline call, and what the request showed.
NoReq == [entry |-> "none", input_temp_path |-> NoPath, output_temp_path |-> NoPath,
          signal |-> 0, sr |-> 0, raised |-> FALSE]
NoPipe == [features |-> <<>>, features_reindexed |-> <<>>, features_no_inf |-> <<>>,
           transform_arg |-> <<>>, features_imputed |-> <<>>,
           predict_arg |-> <<>>, prediction |-> <<>>]
NoOut == [result |-> <<None, None>>, msg |-> "none", shown |-> <<>>, uncaught |-> FALSE,
          cause |-> "none", steps |-> <<>>, stopped |-> FALSE, load_msg |-> "none"]

\* ------------------------------------------------- pure steps of the pipeline
\* A one-row DataFrame is the sequence of its columns, each [name, val].
Col(n, v) == [name |-> n, val |-> v]
ColumnNames(df) == [i \in 1..Len(df) |-> df[i].name]

\* Index.get_indexer: the position of a label among the columns, 0 when absent.
Position(df, n) ==
    IF \E i \in 1..Len(df) : df[i].name = n
    THEN CHOOSE i \in 1..Len(df) : df[i].name = n
    ELSE 0

\* A projection that keeps only the selected names the extraction produced.
ReindexDropMissing(df, selected) ==
    LET present == SelectSeq(selected, LAMBDA n : Position(df, n) # 0)
    IN  [i \in 1..Len(present) |-> Col(present[i], df[Position(df, present[i])].val)]

\* features.reindex(columns=selected_features_names)
Reindex(df, selected) ==
    [i \in 1..Len(selected) |->
        LET j == Position(df, selected[i])
        IN  Col(selected[i], IF j = 0 THEN NaN ELSE df[j].val)]

\* A replacement that forgets the negative infinity.
ReplaceInfPositiveOnly(df) ==
    [i \in 1..Len(df) |->
        Col(df[i].name, IF df[i].val = Inf THEN NaN ELSE df[i].val)]

\* features_reindexed.replace([np.inf, -np.inf], np.nan)
ReplaceInf(df) ==
    [i \in 1..Len(df) |->
        Col(df[i].name, IF df[i].val \in {Inf, NegInf} THEN NaN ELSE df[i].val)]

\* imputer.transform(features_no_inf): the fitted imputer fills the missing
\* values and returns the bare array of values.
ImputerTransform(df) ==
    [i \in 1..Len(df) |-> IF df[i].val = NaN THEN Fill ELSE df[i].val]

\* Lines 72-73; Python index k is position k + 1 here.
Kata(pred_array) == IF pred_array[1] = 1 THEN "Buka" ELSE "Tutup"
\* The speaker read from the unused position.
PembicaraFromPosition1(pred_array) == IF pred_array[2] = 1 THEN "Fikri" ELSE "Fauzan"
Pembicara(pred_array) == IF pred_array[3] = 1 THEN "Fikri" ELSE "Fauzan"

\* The labels assigned when line 72 or 73 raises IndexError.
Partial(pred_array) ==
    IF Len(pred_array) >= 1 THEN <<Kata(pred_array), None>> ELSE <<None, None>>

\* A handler that hands back whatever labels were assigned before the failure.
PipelineExceptPartial(partial) == partial

\* except Exception: ... return None, None
PipelineExcept(partial) == <<None, None>>

\* Where run_prediction_pipeline returns to: the return statement of line 108
\* inside the try (so the finally clause), or line 182 of the recorder tab.
ReturnTo(entry) == IF entry = "upload" THEN "fin_in" ELSE "tab2"

\* ------------------------------------------------- run_prediction_pipeline
PipelineFail(s, step, partial) ==
    /\ out' = [out EXCEPT ![s].msg = "pipeline",
                          ![s].cause = "pipeline",
                          ![s].steps = Append(@, step),
                          ![s].result = PipelineExcept(partial)]
    /\ pipe' = [pipe EXCEPT ![s] = NoPipe]
    /\ pc' = [pc EXCEPT ![s] = ReturnTo(req[s].entry)]

PipelineStep(s, step, next) ==
    /\ out' = [out EXCEPT ![s].steps = Append(@, step)]
    /\ pc' = [pc EXCEPT ![s] = next]

\* Line 58: tsfel.time_series_features_extractor(tsfel_cfg, signal, fs=sr)
Extract(s, FeatureSets) ==
    /\ pc[s] = "extract"
    /\ \/ /\ assets[s].tsfel_cfg # None
          /\ \E f \in FeatureSets :
                pipe' = [pipe EXCEPT ![s].features = f]
          /\ PipelineStep(s, "extract", "reindex")
       \/ PipelineFail(s, "extract", <<None, None>>)
    /\ UNCHANGED <<artifacts, ffmpeg, cache, reads, fs, runs, assets, req>>

\* Line 61
Project(s) ==
    /\ pc[s] = "reindex"
    /\ pipe' = [pipe EXCEPT ![s].features_reindexed =
                    Reindex(pipe[s].features, assets[s].selected_features_names)]
    /\ PipelineStep(s, "reindex", "replace")
    /\ UNCHANGED <<artifacts, ffmpeg, cache, reads, fs, runs, assets, req>>

\* Line 64
Replace(s) ==
    /\ pc[s] = "replace"
    /\ pipe' = [pipe EXCEPT ![s].features_no_inf = ReplaceInf(pipe[s].features_reindexed)]
    /\ PipelineStep(s, "replace", "impute")
    /\ UNCHANGED <<artifacts, ffmpeg, cache, reads, fs, runs, assets, req>>

\* Line 65
Impute(s) ==
    /\ pc[s] = "impute"
    /\ \/ /\ pipe' = [pipe EXCEPT ![s].transform_arg = pipe[s].features_no_inf,
                                  ![s].features_imputed =
                                      ImputerTransform(pipe[s].features_no_inf)]
          /\ PipelineStep(s, "impute", "predict")
       \/ PipelineFail(s, "impute", <<None, None>>)
    /\ UNCHANGED <<artifacts, ffmpeg, cache, reads, fs, runs, assets, req>>

\* Line 68: the classifier is opaque, its output any vector of Predictions.
Predict(s, Predictions) ==
    /\ pc[s] = "predict"
    /\ \/ /\ \E p \in Predictions :
                pipe' = [pipe EXCEPT ![s].predict_arg = pipe[s].features_imputed,
                                     ![s].prediction = <<p>>]
          /\ PipelineStep(s, "predict", "interpret")
       \/ PipelineFail(s, "predict", <<None, None>>)
    /\ UNCHANGED <<artifacts, ffmpeg, cache, reads, fs, runs, assets, req>>

\* Lines 69-75
Interpret(s) ==
    /\ pc[s] = "interpret"
    /\ LET pred_array == pipe[s].prediction[1]
       IN  \/ /\ Len(pred_array) >= 3
              /\ out' = [out EXCEPT ![s].steps = Append(@, "interpret"),
                                    ![s].result = <<Kata(pred_array), Pembicara(pred_array)>>]
              /\ pc' = [pc EXCEPT ![s] = "pipe_ret"]
              /\ UNCHANGED pipe
           \/ /\ Len(pred_array) < 3
              /\ PipelineFail(s, "interpret", Partial(pred_array))
    /\ UNCHANGED <<artifacts, ffmpeg, cache, reads, fs, runs, assets, req>>

\* The return of line 75: the locals of the call are gone.
PipelineReturn(s) ==
    /\ pc[s] = "pipe_ret"
    /\ pipe' = [pipe EXCEPT ![s] = NoPipe]
    /\ pc' = [pc EXCEPT ![s] = ReturnTo(req[s].entry)]
    /\ UNCHANGED <<artifacts, ffmpeg, cache, reads, fs, runs, assets, req, out>>

\* ------------------------------------------------- load_assets
\* The body of load_assets over the artifact files as they are on disk:
\* whether it returned, the tuple it returned, and the st.error it issued.
load_assets(art) ==
    CASE art.kind = "ok" ->
            [returned |-> TRUE, value |-> LoadedAssets(art.selected), msg |-> "none"]
      [] art.kind = "notlist" ->
            [returned |-> TRUE, value |-> NoneAssets, msg |-> "notlist"]
      [] art.kind = "missing" ->
            [returned |-> FALSE, value |-> Unset, msg |-> "missing"]
      [] OTHER ->
            [returned |-> FALSE, value |-> Unset, msg |-> "load"]

\* A cache that never keeps a value.
CacheStoreNothing(c, r) == c

\* @st.cache_resource: the value of a call that returned is kept (with the
\* elements it drew); a call that st.stop() ended stores nothing.
CacheStore(c, r) == IF r.returned THEN <<[value |-> r.value, msg |-> r.msg]>> ELSE c

\* One script run, from line 1 to line 49: the call of the cached load_assets
\* and the assignment of the four globals, or the halt of the run.
RunScript(s) ==
    /\ pc[s] = "idle"
    /\ runs[s] < MaxRuns
    /\ runs' = [runs EXCEPT ![s] = @ + 1]
    /\ req' = [req EXCEPT ![s] = NoReq]
    /\ IF cache # <<>>
       THEN /\ assets' = [assets EXCEPT ![s] = cache[1].value]
            /\ out' = [out EXCEPT ![s] = [NoOut EXCEPT !.load_msg = cache[1].msg]]
            /\ pc' = [pc EXCEPT ![s] = "ui"]
            /\ UNCHANGED <<cache, reads>>
       ELSE LET r == load_assets(artifacts)
            IN  /\ reads' = reads + 1
                /\ cache' = CacheStore(cache, r)
                /\ assets' = [assets EXCEPT ![s] = r.value]
                /\ out' = [out EXCEPT ![s] = [NoOut EXCEPT !.load_msg = r.msg,
                                                            !.stopped = ~r.returned]]
                /\ pc' = [pc EXCEPT ![s] = IF r.returned THEN "ui" ELSE "idle"]
    /\ UNCHANGED <<artifacts, ffmpeg, fs, pipe>>

\* The run reaches the end of the script with no button pressed.
NoClick(s) ==
    /\ pc[s] = "ui"
    /\ pc' = [pc EXCEPT ![s] = "idle"]
    /\ UNCHANGED <<artifacts, ffmpeg, cache, reads, fs, runs, assets, req, pipe, out>>

\* ------------------------------------------------- process_uploaded_file
\* Line 93: output_temp_path = input_temp_path + ".wav"
OutputPath(input_temp_path) == Append(input_temp_path, "wav")

Exists(path) == path \in DOMAIN fs
Written(files, path, content) == (path :> content) @@ files
Removed(files, path) == [q \in DOMAIN files \ {path} |-> files[q]]

\* Lines 142-144 and 87: the button is pressed and the handler is entered.
UploadClick(s) ==
    /\ pc[s] = "ui"
    /\ req' = [req EXCEPT ![s].entry = "upload"]
    /\ pc' = [pc EXCEPT ![s] = "mktemp"]
    /\ UNCHANGED <<artifacts, ffmpeg, cache, reads, fs, runs, assets, pipe, out>>

\* Lines 89-93: NamedTemporaryFile(delete=False) creates a file under a name
\* no existing file has, then the bytes are written.  The with block is
\* outside the try: a failed write propagates and the file stays.
MkTemp(s) ==
    /\ pc[s] = "mktemp"
    /\ \E n \in Names, e \in Exts :
          LET path == <<n, e>>
          IN  /\ ~Exists(path)
              /\ fs' = Written(fs, path, s)
              /\ \/ /\ req' = [req EXCEPT ![s].input_temp_path = path,
                                          ![s].output_temp_path = OutputPath(path)]
                    /\ pc' = [pc EXCEPT ![s] = "ffmpeg"]
                    /\ UNCHANGED out
                 \/ /\ out' = [out EXCEPT ![s].uncaught = TRUE, ![s].cause = "write"]
                    /\ pc' = [pc EXCEPT ![s] = "idle"]
                    /\ UNCHANGED req
    /\ UNCHANGED <<artifacts, ffmpeg, cache, reads, runs, assets, pipe>>

\* e.stderr.decode(): bytes that are not UTF-8 raise UnicodeDecodeError.
Decodes(stderr) == stderr = "utf8"

\* An except clause ran to its return: the message, then the finally clause.
Caught(s, message, cause) ==
    /\ out' = [out EXCEPT ![s].msg = message, ![s].cause = cause,
                          ![s].result = <<None, None>>]
    /\ pc' = [pc EXCEPT ![s] = "fin_in"]
    /\ UNCHANGED req

\* An exception leaves the handler: the finally clause runs, then it propagates.
Raised(s, cause) ==
    /\ out' = [out EXCEPT ![s].cause = cause]
    /\ req' = [req EXCEPT ![s].raised = TRUE]
    /\ pc' = [pc EXCEPT ![s] = "fin_in"]

\* Lines 97-102 with the except clauses of lines 110-115.
RunFfmpeg(s) ==
    /\ pc[s] = "ffmpeg"
    /\ \/ /\ ~ffmpeg
          /\ Caught(s, "notfound", "ffmpeg_missing")
          /\ UNCHANGED fs
       \/ /\ ffmpeg
          /\ Exists(req[s].input_temp_path)
          /\ fs' = Written(fs, req[s].output_temp_path, fs[req[s].input_temp_path])
          /\ pc' = [pc EXCEPT ![s] = "load"]
          /\ UNCHANGED <<req, out>>
       \/ /\ ffmpeg
          /\ \E wrote \in BOOLEAN, stderr \in {"utf8", "bytes"} :
                /\ fs' = IF wrote THEN Written(fs, req[s].output_temp_path, s) ELSE fs
                /\ IF Decodes(stderr)
                   THEN Caught(s, "convert", "ffmpeg_exit")
                   ELSE Raised(s, "ffmpeg_exit")
    /\ UNCHANGED <<artifacts, ffmpeg, cache, reads, runs, assets, pipe>>

\* Line 105: librosa.load(output_temp_path, sr=TARGET_SR, mono=True); a path
\* that no longer exists raises FileNotFoundError, caught by line 113.
LibrosaLoad(s) ==
    /\ pc[s] = "load"
    /\ \/ /\ ~Exists(req[s].output_temp_path)
          /\ Caught(s, "notfound", "decode")
       \/ /\ Exists(req[s].output_temp_path)
          /\ req' = [req EXCEPT ![s].signal = fs[req[s].output_temp_path],
                                ![s].sr = TARGET_SR]
          /\ pc' = [pc EXCEPT ![s] = "extract"]
          /\ UNCHANGED out
       \/ /\ Exists(req[s].output_temp_path)
          /\ Caught(s, "generic", "decode")
    /\ UNCHANGED <<artifacts, ffmpeg, cache, reads, fs, runs, assets, pipe>>

\* Lines 121-122
CleanupInput(s) ==
    /\ pc[s] = "fin_in"
    /\ fs' = IF Exists(req[s].input_temp_path) THEN Removed(fs, req[s].input_temp_path) ELSE fs
    /\ pc' = [pc EXCEPT ![s] = "fin_out"]
    /\ UNCHANGED <<artifacts, ffmpeg, cache, reads, runs, assets, req, pipe, out>>

\* The end of the finally clause: the return value reaches line 144, or the
\* pending exception ends the script run.
FinallyExit(s, raised) ==
    /\ pc' = [pc EXCEPT ![s] = IF raised THEN "idle" ELSE "tab1"]
    /\ out' = [out EXCEPT ![s].uncaught = raised,
                          ![s].result = IF raised THEN <<None, None>> ELSE @]

\* Line 123: os.path.exists(output_temp_path)
CleanupOutputCheck(s) ==
    /\ pc[s] = "fin_out"
    /\ IF Exists(req[s].output_temp_path)
       THEN /\ pc' = [pc EXCEPT ![s] = "fin_rm"]
            /\ UNCHANGED out
       ELSE FinallyExit(s, req[s].raised)
    /\ UNCHANGED <<artifacts, ffmpeg, cache, reads, fs, runs, assets, req, pipe>>

\* Line 124: os.remove(output_temp_path) raises FileNotFoundError when the
\* file went away after the check.
CleanupOutputRemove(s) ==
    /\ pc[s] = "fin_rm"
    /\ \/ /\ Exists(req[s].output_temp_path)
          /\ fs' = Removed(fs, req[s].output_temp_path)
          /\ FinallyExit(s, req[s].raised)
       \/ /\ ~Exists(req[s].output_temp_path)
          /\ FinallyExit(s, TRUE)
          /\ UNCHANGED fs
    /\ UNCHANGED <<artifacts, ffmpeg, cache, reads, runs, assets, req, pipe>>

\* if kata and pembicara: the two metrics are shown.
Display(result) == IF result[1] # None /\ result[2] # None THEN result ELSE <<>>

\* Lines 146-150
Tab1Show(s) ==
    /\ pc[s] = "tab1"
    /\ out' = [out EXCEPT ![s].shown = Display(out[s].result)]
    /\ pc' = [pc EXCEPT ![s] = "idle"]
    /\ UNCHANGED <<artifacts, ffmpeg, cache, reads, fs, runs, assets, req, pipe>>

\* ------------------------------------------------- the recorder tab
\* Lines 174-176
RecordClick(s) ==
    /\ pc[s] = "ui"
    /\ req' = [req EXCEPT ![s].entry = "recorder"]
    /\ pc' = [pc EXCEPT ![s] = "rec_load"]
    /\ UNCHANGED <<artifacts, ffmpeg, cache, reads, fs, runs, assets, pipe, out>>

\* Line 179, with the except clause of lines 190-191.
RecorderLoad(s) ==
    /\ pc[s] = "rec_load"
    /\ \/ /\ req' = [req EXCEPT ![s].signal = s, ![s].sr = TARGET_SR]
          /\ pc' = [pc EXCEPT ![s] = "extract"]
          /\ UNCHANGED out
       \/ /\ out' = [out EXCEPT ![s].msg = "recorder", ![s].cause = "decode"]
          /\ pc' = [pc EXCEPT ![s] = "idle"]
          /\ UNCHANGED req
    /\ UNCHANGED <<artifacts, ffmpeg, cache, reads, fs, runs, assets, pipe>>

\* Lines 184-188
Tab2Show(s) ==
    /\ pc[s] = "tab2"
    /\ out' = [out EXCEPT ![s].shown = Display(out[s].result)]
    /\ pc' = [pc EXCEPT ![s] = "idle"]
    /\ UNCHANGED <<artifacts, ffmpeg, cache, reads, fs, runs, assets, req, pipe>>

\* ------------------------------------------------- specifications
Values == {"v", Inf, NegInf}
\* Extractions over the features f1, f2 (f3 is never extracted).
WideFeatures ==
    {<<>>} \cup {<<Col("f1", v)>> : v \in Values} \cup {<<Col("f2", v)>> : v \in Values}
    \cup {<<Col("f1", v), Col("f2", w)>> : v, w \in Values}
WidePredictions ==
    {<<>>} \cup {<<a>> : a \in 0..2} \cup {<<a, b>> : a, b \in 0..2}
    \cup {<<a, b, c>> : a, b, c \in 0..2}
SelectedLists == {<<"f1", "f3">>, <<"f2", "f1">>, <<"f3", "f2", "f1">>}

NarrowFeatures == {<<Col("f1", Inf), Col("f2", "v")>>}
NarrowPredictions == {<<1, 0, 0>>, <<0, 1>>}

StartState ==
    /\ cache = <<>>
    /\ reads = 0
    /\ fs = NoFiles
    /\ pc = [s \in Sessions |-> "idle"]
    /\ runs = [s \in Sessions |-> 0]
    /\ assets = [s \in Sessions |-> Unset]
    /\ req = [s \in Sessions |-> NoReq]
    /\ pipe = [s \in Sessions |-> NoPipe]
    /\ out = [s \in Sessions |-> NoOut]

Init ==
    /\ artifacts \in {[kind |-> k, selected |-> <<"f1", "f3">>] :
                        k \in {"ok", "notlist", "missing", "corrupt"}}
    /\ ffmpeg \in BOOLEAN
    /\ StartState

Next ==
    \E s \in Sessions :
        \/ RunScript(s)
        \/ NoClick(s)
        \/ UploadClick(s)
        \/ MkTemp(s)
        \/ RunFfmpeg(s)
        \/ LibrosaLoad(s)
        \/ Extract(s, NarrowFeatures)
        \/ Project(s)
        \/ Replace(s)
        \/ Impute(s)
        \/ Predict(s, NarrowPredictions)
        \/ Interpret(s)
        \/ PipelineReturn(s)
        \/ CleanupInput(s)
        \/ CleanupOutputCheck(s)
        \/ CleanupOutputRemove(s)
        \/ Tab1Show(s)
        \/ RecordClick(s)
        \/ RecorderLoad(s)
        \/ Tab2Show(s)

Spec == Init /\ [][Next]_vars

\* The recorder tab alone, both sessions: the loader and its cache.
NextLoad ==
    \E s \in Sessions :
        \/ RunScript(s)
        \/ NoClick(s)
        \/ RecordClick(s)
        \/ RecorderLoad(s)
        \/ Extract(s, NarrowFeatures)
        \/ Project(s)
        \/ Replace(s)
        \/ Impute(s)
        \/ Predict(s, NarrowPredictions)
        \/ Interpret(s)
        \/ PipelineReturn(s)
        \/ Tab2Show(s)

SpecLoad == Init /\ [][NextLoad]_vars

\* One session recording, over every extraction, selected list and prediction.
InitPipe ==
    /\ artifacts \in {[kind |-> "ok", selected |-> sel] : sel \in SelectedLists}
                     \cup {[kind |-> "notlist", selected |-> <<>>]}
    /\ ffmpeg = TRUE
    /\ StartState

NextPipe ==
    \E s \in {CHOOSE t \in Sessions : TRUE} :
        \/ RunScript(s)
        \/ NoClick(s)
        \/ RecordClick(s)
        \/ RecorderLoad(s)
        \/ Extract(s, WideFeatures)
        \/ Project(s)
        \/ Replace(s)
        \/ Impute(s)
        \/ Predict(s, WidePredictions)
        \/ Interpret(s)
        \/ PipelineReturn(s)
        \/ Tab2Show(s)

SpecPipe == InitPipe /\ [][NextPipe]_vars

\* ================================================================ claims
InUploadCall(s) ==
    /\ req[s].entry = "upload"
    /\ pc[s] \in {"ffmpeg", "load", "extract", "reindex", "replace", "impute", "predict",
                 "interpret", "pipe_ret", "fin_in", "fin_out", "fin_rm"}
UploadCallEnded(s) == req[s].entry = "upload" /\ pc[s] \in {"tab1", "idle"}
TempPaths(s) == {req[s].input_temp_path, req[s].output_temp_path}
PipelineOrder == <<"extract", "reindex", "replace", "impute", "predict", "interpret">>
HasColumn(df, n) == \E j \in 1..Len(df) : df[j].name = n

\* C1: once process_uploaded_file has ended, on whatever path, no temporary
\* file holding that request's audio (its input file or its derived .wav
\* file) exists any more.
C1_NoTempFilesAfterCall ==
    \A s \in Sessions :
        UploadCallEnded(s) => \A p \in DOMAIN fs : fs[p] # s

\* C2 as stated: for a prediction vector of at least 3 positions the word is
\* 'Buka' iff position 0 is nonzero (else 'Tutup') and the speaker is 'Fikri'
\* iff position 2 is nonzero (else 'Fauzan').
C2_NonzeroMapping ==
    \A s \in Sessions :
        pc[s] = "pipe_ret" =>
            LET p == pipe[s].prediction[1]
            IN  /\ out[s].result[1] = (IF p[1] # 0 THEN "Buka" ELSE "Tutup")
                /\ out[s].result[2] = (IF p[3] # 0 THEN "Fikri" ELSE "Fauzan")

\* C2 amended: for a prediction vector of at least 3 positions the word is
\* 'Buka' iff position 0 equals 1 (else 'Tutup') and the speaker is 'Fikri'
\* iff position 2 equals 1 (else 'Fauzan'), whatever position 1 holds.
C2_EqualsOneMapping ==
    \A s \in Sessions :
        pc[s] = "pipe_ret" =>
            LET p == pipe[s].prediction[1]
            IN  /\ Len(p) >= 3
                /\ out[s].result[1] \in {"Buka", "Tutup"}
                /\ out[s].result[2] \in {"Fikri", "Fauzan"}
                /\ out[s].result[1] = "Buka" <=> p[1] = 1
                /\ out[s].result[2] = "Fikri" <=> p[3] = 1

C2_Witness ==
    \E s \in Sessions :
        /\ pc[s] = "pipe_ret"
        /\ pipe[s].prediction[1] = <<2, 1, 1>>
        /\ out[s].result = <<"Tutup", "Fikri">>

\* C3: a run whose load_assets failed never gets past line 49: a session that
\* is past the loader holds a loaded classifier, imputer and configuration.
C3_NoRequestWithoutAssets ==
    \A s \in Sessions :
        pc[s] # "idle" =>
            /\ assets[s].model \notin {None, "unset"}
            /\ assets[s].imputer \notin {None, "unset"}
            /\ assets[s].tsfel_cfg \notin {None, "unset"}

\* C4 as stated: the artifact files are read at most once in the life of the
\* process, whatever the outcome of the first call of load_assets.
C4_ReadAtMostOnce == reads <= 1

\* C4 amended: once a call of load_assets has returned, the files are never
\* read again and every later call yields that same tuple from the cache; the
\* globals a run holds are always the cached tuple.
C4_CachedAfterReturn ==
    [][ /\ \A s \in Sessions :
              assets'[s] # Unset => (cache' # <<>> /\ cache'[1].value = assets'[s])
        /\ cache # <<>> => (cache' = cache /\ reads' = reads /\ reads = 1) ]_vars

C4_Witness ==
    \E s, t \in Sessions :
        /\ s # t
        /\ cache # <<>>
        /\ runs[s] >= 2
        /\ pc[s] = "ui"
        /\ pc[t] # "idle"
        /\ assets[s] = assets[t]
        /\ assets[s] = cache[1].value
        /\ reads = 1

\* C5: a failure in any step of run_prediction_pipeline ends the call at that
\* step with (None, None); the result is both labels or neither.
C5_AllOrNothing ==
    \A s \in Sessions :
        /\ out[s].result[1] = None <=> out[s].result[2] = None
        /\ out[s].cause = "pipeline" =>
              /\ out[s].result = <<None, None>>
              /\ out[s].msg = "pipeline"
              /\ pc[s] \in {"tab2", "fin_in", "fin_out", "fin_rm", "tab1", "idle"}
              /\ pipe[s] = NoPipe
              /\ out[s].steps = SubSeq(PipelineOrder, 1, Len(out[s].steps))

C5_Witness ==
    \E s \in Sessions :
        /\ out[s].cause = "pipeline"
        /\ out[s].steps = PipelineOrder
        /\ out[s].result = <<None, None>>
        /\ pc[s] = "tab2"

\* C6: a request that failed for a missing transcoder, a transcoder error, a
\* decode failure or a pipeline failure ends caught, with an error message
\* and no labels shown, never as an uncaught exception.
C6_FailuresCaught ==
    \A s \in Sessions :
        (pc[s] = "idle" /\ out[s].cause \in {"ffmpeg_missing", "ffmpeg_exit", "decode", "pipeline"}) =>
            /\ ~out[s].uncaught
            /\ out[s].msg # "none"
            /\ out[s].shown = <<>>

\* C7: process_uploaded_file reports 'FFmpeg not found' exactly when the
\* transcoder is absent from the host.
C7_NotFoundIffAbsent ==
    \A s \in Sessions :
        (req[s].entry = "upload" /\ out[s].msg # "none") =>
            (out[s].msg = "notfound" <=> ~ffmpeg)

\* C8: the projection yields exactly the selected names in the selected
\* order, each holding the extracted value, or the missing-value marker when
\* the extraction did not produce it; the step never fails.
C8_ProjectionExact ==
    \A s \in Sessions :
        pc[s] = "replace" =>
            LET sel == assets[s].selected_features_names
                f == pipe[s].features
                r == pipe[s].features_reindexed
            IN  /\ out[s].steps = <<"extract", "reindex">>
                /\ out[s].cause = "none"
                /\ Len(r) = Len(sel)
                /\ \A i \in 1..Len(sel) :
                      /\ r[i].name = sel[i]
                      /\ HasColumn(f, sel[i]) =>
                            \E j \in 1..Len(f) : f[j].name = sel[i] /\ r[i].val = f[j].val
                      /\ ~HasColumn(f, sel[i]) => r[i].val = NaN

C8_Witness ==
    \E s \in Sessions :
        /\ pc[s] = "replace"
        /\ \E i \in 1..Len(pipe[s].features_reindexed) :
              ~HasColumn(pipe[s].features, pipe[s].features_reindexed[i].name)
        /\ \E j \in 1..Len(pipe[s].features) :
              ~HasColumn(pipe[s].features_reindexed, pipe[s].features[j].name)
        /\ \E i \in 1..Len(pipe[s].features_reindexed) :
              HasColumn(pipe[s].features, pipe[s].features_reindexed[i].name)

\* C9: a call that produced labels ran extract, project, replace, impute,
\* classify, interpret in that order, each once; the imputer got a row with
\* no infinity in it and the classifier got the imputer's output.
C9_StepOrder ==
    \A s \in Sessions :
        /\ out[s].result # <<None, None>> => out[s].steps = PipelineOrder
        /\ pc[s] = "pipe_ret" =>
              LET r == pipe[s].features_reindexed
                  a == pipe[s].transform_arg
              IN  /\ out[s].result # <<None, None>>
                  /\ Len(a) = Len(r)
                  /\ \A i \in 1..Len(a) :
                        /\ a[i].val \notin {Inf, NegInf}
                        /\ a[i].name = r[i].name
                        /\ a[i].val = (IF r[i].val \in {Inf, NegInf} THEN NaN ELSE r[i].val)
                  /\ pipe[s].predict_arg = pipe[s].features_imputed
                  /\ Len(pipe[s].predict_arg) = Len(a)
                  /\ \A i \in 1..Len(a) : pipe[s].predict_arg[i] # NaN

C9_Witness ==
    \E s \in Sessions :
        /\ pc[s] = "pipe_ret"
        /\ \E i, j \in 1..Len(pipe[s].features_reindexed) :
              /\ pipe[s].features_reindexed[i].val = Inf
              /\ pipe[s].features_reindexed[j].val = NegInf

\* C10: two upload requests in flight never share a temporary path.
C10_DistinctTempPaths ==
    \A s, t \in Sessions :
        (s # t /\ InUploadCall(s) /\ InUploadCall(t)) => TempPaths(s) \cap TempPaths(t) = {}

====
